---- MODULE Spec2Model ----
(***************************************************************************)
(* The SQLAlchemy driver of the boson quota ledger                         *)
(* (src/boson/db/sqlalchemy/api.py, class API).                            *)
(*                                                                         *)
(* The database outlives the API object, so the initial state is either an *)
(* empty database or one that already holds a registered resource with a   *)
(* usage and a quota.  Every request context owns one SQLAlchemy session:  *)
(* rows handed to session.add() are seen by that context's own queries     *)
(* (autoflush) and reach the database when the session commits.            *)
(*                                                                         *)
(* A call is one step.  result records the last call: the context it was   *)
(* made through, its name, its arguments, the exception that left it (None *)
(* when it returned) and the id of the row it returned.                    *)
(***************************************************************************)
EXTENDS Integers, FiniteSets, Sequences, TLC

VARIABLES db, session, attached, result, nextId

vars == <<db, session, attached, result, nextId>>

\* ------------------------------------------------------------------ bounds

\* Rows that generate_uuid() can still name: caps the number of inserts.
MaxIds == 2

\* ------------------------------------------------------------------ values

None == "None"

Contexts == {"c1", "c2"}

\* An argument documented as "either an object or a UUID".
ArgForms == {"id", "record"}

IdPool == <<"g1", "g2", "g3", "g4", "g5">>

ServiceNames == {"nova", "glance"}
AuthFields == {"tenant_id"}
ParamDatas == {"P1"}
\* The expire times a caller passes to create_reservation.
ExpireTimes == {1}
\* What a caller reserves against: a resource and a Usage row, of that
\* resource or of another.
ReserveTargets ==
    {[resource |-> "R1", usage |-> "U1"], [resource |-> "R9", usage |-> "U1"]}
Deltas == {-1, 6, 11}
\* What a caller asks create_usage for: the defaults for a fingerprint the
\* database may hold, every attribute given for one it does not hold, and
\* the defaults for another resource.
UsageRequests ==
    {[resource |-> "R1", auth_data |-> "T1", used |-> 0, reserved |-> 0,
      until_refresh |-> 0, refresh_id |-> None],
     [resource |-> "R1", auth_data |-> "T2", used |-> 3, reserved |-> 2,
      until_refresh |-> 4, refresh_id |-> "f1"],
     [resource |-> "R9", auth_data |-> "T1", used |-> 0, reserved |-> 0,
      until_refresh |-> 0, refresh_id |-> None]}

\* The argument combinations of a lookup by id or by natural key (ref, the
\* service or resource argument, and key, the rest of the natural key):
\* the id alone, the natural key with ref a UUID or an object, both, neither,
\* ref alone and key alone.  nokey is key left out.
LookupShapes(id, ref, key, nokey) ==
    {[form |-> "none", id |-> id, ref |-> None, key |-> nokey],
     [form |-> "id", id |-> None, ref |-> ref, key |-> key],
     [form |-> "record", id |-> None, ref |-> ref, key |-> key],
     [form |-> "record", id |-> id, ref |-> ref, key |-> key],
     [form |-> "none", id |-> None, ref |-> None, key |-> nokey],
     [form |-> "record", id |-> None, ref |-> ref, key |-> nokey],
     [form |-> "none", id |-> None, ref |-> None, key |-> key]}

\* The parameter and auth data of a usage lookup, given and left out.
Fingerprint == [param_data |-> "P1", auth_data |-> "T1"]
NoFingerprint == [param_data |-> None, auth_data |-> None]

\* The times at which a call can be made: up to one past the expire times.
Clock == {1, 2}

\* The auth_data dictionary with no field, which is also what projecting
\* auth_data onto the empty field set gives.
EmptyAuth == "{}"

EmptyStore ==
    [services |-> {}, categories |-> {}, resources |-> {}, usages |-> {},
     quotas |-> {}, reservations |-> {}, reserved_items |-> {}]

\* A database populated before this API object was built.
SeedStore ==
    [EmptyStore EXCEPT
        !.services = {[id |-> "S1", name |-> "nova", auth_fields |-> {"tenant_id"}]},
        !.categories = {[id |-> "K1", service_id |-> "S1", name |-> "compute",
                         usage_fset |-> {"tenant_id"},
                         quota_fsets |-> <<{"tenant_id"}, {}>>]},
        !.resources = {[id |-> "R1", service_id |-> "S1", category_id |-> "K1",
                        name |-> "instances", absolute |-> FALSE],
                       [id |-> "R9", service_id |-> "S1", category_id |-> "K1",
                        name |-> "injected_files", absolute |-> TRUE]},
        !.usages = {[id |-> "U1", resource_id |-> "R1", auth_data |-> "T1",
                     parameter_data |-> "P1", used |-> 0, reserved |-> 0,
                     until_refresh |-> 1, refresh_id |-> None],
                    [id |-> "U2", resource_id |-> "R1", auth_data |-> "T3",
                     parameter_data |-> "P1", used |-> 1, reserved |-> 2,
                     until_refresh |-> 1, refresh_id |-> None]},
        !.quotas = {[id |-> "Q1", resource_id |-> "R1", auth_data |-> "T1",
                     limit |-> 10],
                    [id |-> "Q0", resource_id |-> "R1", auth_data |-> EmptyAuth,
                     limit |-> 20]}]

\* ------------------------------------------------------------------ helpers

\* utils.generate_uuid(): an id no row carries yet.
generate_uuid == IdPool[nextId]

\* What a query made through context c sees: the database and the rows the
\* context's own session has added (flushed before the query runs).
Visible(c, table) == db[table] \cup session[c][table]

\* session.add(row)
SessionAdd(c, table, row) ==
    [session EXCEPT ![c][table] = @ \cup {row}]

\* An isinstance test with its arguments in the documented order, which
\* accepts a UUID or an object.
IsInstanceAccepts(form) == form \notin {"id", "record", "none"}

\* isinstance(sa_models.X, arg): the arguments are in the wrong order, so the
\* second argument is the caller's id or record and not a class; Python
\* raises TypeError for every such argument.
IsInstanceRaises(form) == form \in {"id", "record", "none"}

\* The status column of a Reservation row that the constructor call leaves
\* to its default.
ReservationStatusDefault == "PENDING"

\* The used and reserved columns of a Usage row that the constructor call
\* leaves to their defaults.
UsageCounterDefault == 0

NoArg == [x |-> None]

Returned(c, op, arg, ret) ==
    [ctx |-> c, op |-> op, arg |-> arg, raised |-> None, ret |-> ret]
Raised(c, op, arg, exc) ==
    [ctx |-> c, op |-> op, arg |-> arg, raised |-> exc, ret |-> None]

NoCall ==
    [ctx |-> None, op |-> "none", arg |-> NoArg, raised |-> None, ret |-> None]

\* What a commit or a rollback through context c acts on: the reservations
\* of the transaction it ends.
Ended(c) == [reservations |-> {r.id : r \in session[c].reservations}]

\* ------------------------------------------------------------------ Init

Init ==
    /\ db \in {EmptyStore, SeedStore}
    /\ session = [c \in Contexts |-> EmptyStore]
    /\ attached = {}
    /\ result = NoCall
    /\ nextId = 1

\* ------------------------------------------------------------------ actions

\* API.create_session: a new session replaces the context's session; rows
\* added to the old one and not committed are lost.
create_session(c) ==
    /\ session' = [session EXCEPT ![c] = EmptyStore]
    /\ attached' = attached \cup {c}
    /\ result' = Returned(c, "create_session", NoArg, None)
    /\ UNCHANGED <<db, nextId>>

\* commit as it would be if the transaction were ended without its rows
\* being written.
commit_lost(c) ==
    /\ IF c \notin attached
       THEN /\ result' = Raised(c, "commit", NoArg, "AttributeError")
            /\ UNCHANGED session
       ELSE /\ session' = [session EXCEPT ![c] = EmptyStore]
            /\ result' = Returned(c, "commit", Ended(c), None)
    /\ UNCHANGED <<db, attached, nextId>>

\* API.commit: session.commit() writes the session's rows to the database.
commit(c) ==
    /\ IF c \notin attached
       THEN /\ result' = Raised(c, "commit", NoArg, "AttributeError")
            /\ UNCHANGED <<db, session>>
       ELSE /\ db' = [t \in DOMAIN db |-> db[t] \cup session[c][t]]
            /\ session' = [session EXCEPT ![c] = EmptyStore]
            /\ result' = Returned(c, "commit", Ended(c), None)
    /\ UNCHANGED <<attached, nextId>>

\* rollback as it would be if session.rollback() were never reached.
rollback_keeps(c) ==
    /\ IF c \notin attached
       THEN result' = Raised(c, "rollback", NoArg, "AttributeError")
       ELSE result' = Returned(c, "rollback", Ended(c), None)
    /\ UNCHANGED <<db, session, attached, nextId>>

\* rollback as it would be if it also undid reservations already committed.
rollback_wipes(c) ==
    /\ IF c \notin attached
       THEN /\ result' = Raised(c, "rollback", NoArg, "AttributeError")
            /\ UNCHANGED <<db, session>>
       ELSE /\ session' = [session EXCEPT ![c] = EmptyStore]
            /\ db' = [db EXCEPT !.reservations = {}]
            /\ result' = Returned(c, "rollback", Ended(c), None)
    /\ UNCHANGED <<attached, nextId>>

\* API.rollback: session.rollback() discards the session's rows.
rollback(c) ==
    /\ IF c \notin attached
       THEN /\ result' = Raised(c, "rollback", NoArg, "AttributeError")
            /\ UNCHANGED session
       ELSE /\ session' = [session EXCEPT ![c] = EmptyStore]
            /\ result' = Returned(c, "rollback", Ended(c), None)
    /\ UNCHANGED <<db, attached, nextId>>

\* create_service as it would be if it saved the new row with a commit of
\* the session.
create_service_commits(c, name, auth_fields) ==
    /\ nextId <= MaxIds
    /\ IF c \notin attached
       THEN /\ result' = Raised(c, "create_service", [name |-> name], "AttributeError")
            /\ UNCHANGED <<db, session, nextId>>
       ELSE LET new_service == [id |-> generate_uuid, name |-> name,
                                auth_fields |-> auth_fields]
                added == SessionAdd(c, "services", new_service)
            IN /\ db' = [t \in DOMAIN db |-> db[t] \cup added[c][t]]
               /\ session' = [session EXCEPT ![c] = EmptyStore]
               /\ nextId' = nextId + 1
               /\ result' = Returned(c, "create_service", [name |-> name], new_service.id)
    /\ UNCHANGED attached

\* API.create_service: the Duplicate raised for an existing name is caught
\* by the except clause that follows it, and the row is added regardless.
create_service(c, name, auth_fields) ==
    /\ nextId <= MaxIds
    /\ IF c \notin attached
       THEN /\ result' = Raised(c, "create_service", [name |-> name], "AttributeError")
            /\ UNCHANGED <<session, nextId>>
       ELSE LET new_service == [id |-> generate_uuid, name |-> name,
                                auth_fields |-> auth_fields]
            IN /\ session' = SessionAdd(c, "services", new_service)
               /\ nextId' = nextId + 1
               /\ result' = Returned(c, "create_service", [name |-> name], new_service.id)
    /\ UNCHANGED <<db, attached>>

\* create_reservation as it would be if the row were built already
\* COMMITTED.
create_reservation_committed(c, expire) ==
    /\ nextId <= MaxIds
    /\ IF c \notin attached
       THEN /\ result' = Raised(c, "create_reservation", [expire |-> expire], "AttributeError")
            /\ UNCHANGED <<session, nextId>>
       ELSE LET new_reservation == [id |-> generate_uuid, expire |-> expire,
                                    status |-> "COMMITTED"]
            IN /\ session' = SessionAdd(c, "reservations", new_reservation)
               /\ nextId' = nextId + 1
               /\ result' = Returned(c, "create_reservation", [expire |-> expire],
                                        new_reservation.id)
    /\ UNCHANGED <<db, attached>>

\* create_reservation as it would be if the row were built without the
\* expire argument.
create_reservation_no_expire(c, expire) ==
    /\ nextId <= MaxIds
    /\ IF c \notin attached
       THEN /\ result' = Raised(c, "create_reservation", [expire |-> expire], "AttributeError")
            /\ UNCHANGED <<session, nextId>>
       ELSE LET new_reservation == [id |-> generate_uuid, expire |-> 0,
                                    status |-> ReservationStatusDefault]
            IN /\ session' = SessionAdd(c, "reservations", new_reservation)
               /\ nextId' = nextId + 1
               /\ result' = Returned(c, "create_reservation", [expire |-> expire],
                                        new_reservation.id)
    /\ UNCHANGED <<db, attached>>

\* API.create_reservation: the row is built from id, the two timestamps and
\* expire; its status is the column's default.
create_reservation(c, expire) ==
    /\ nextId <= MaxIds
    /\ IF c \notin attached
       THEN /\ result' = Raised(c, "create_reservation", [expire |-> expire], "AttributeError")
            /\ UNCHANGED <<session, nextId>>
       ELSE LET new_reservation == [id |-> generate_uuid, expire |-> expire,
                                    status |-> ReservationStatusDefault]
            IN /\ session' = SessionAdd(c, "reservations", new_reservation)
               /\ nextId' = nextId + 1
               /\ result' = Returned(c, "create_reservation", [expire |-> expire],
                                        new_reservation.id)
    /\ UNCHANGED <<db, attached>>

\* API.create_usage: the isinstance test on the first line raises before the
\* session is touched.  Past it, the Duplicate raised for an existing
\* fingerprint is caught by the except clause that follows it, and the row
\* is built from until_refresh and refresh_id but without the used and
\* reserved arguments.
create_usage(c, form, resource, param_data, auth_data, used, reserved, until_refresh, refresh_id) ==
    LET arg == [resource |-> resource, param_data |-> param_data,
                auth_data |-> auth_data, used |-> used, reserved |-> reserved,
                until_refresh |-> until_refresh, refresh_id |-> refresh_id]
    IN
    /\ IF IsInstanceRaises(form)
       THEN /\ result' = Raised(c, "create_usage", arg, "TypeError")
            /\ UNCHANGED <<session, nextId>>
       ELSE IF c \notin attached
       THEN /\ result' = Raised(c, "create_usage", arg, "AttributeError")
            /\ UNCHANGED <<session, nextId>>
       ELSE LET new_usage == [id |-> generate_uuid, resource_id |-> resource,
                              auth_data |-> auth_data, parameter_data |-> param_data,
                              used |-> UsageCounterDefault,
                              reserved |-> UsageCounterDefault,
                              until_refresh |-> until_refresh,
                              refresh_id |-> refresh_id]
            IN /\ nextId <= MaxIds
               /\ session' = SessionAdd(c, "usages", new_usage)
               /\ nextId' = nextId + 1
               /\ result' = Returned(c, "create_usage", arg, new_usage.id)
    /\ UNCHANGED <<db, attached>>

\* A reserve that adds the delta to reserved of every Usage row of the
\* resource, whatever its fingerprint.
reserve_by_resource(c, form, reservation, resource, usage, delta) ==
    LET arg == [reservation |-> reservation, resource |-> resource,
                usage |-> usage, delta |-> delta]
    IN
    /\ db' = [db EXCEPT !.usages =
                 {IF u.resource_id = resource
                  THEN [u EXCEPT !.reserved = @ + delta]
                  ELSE u : u \in db.usages}]
    /\ result' = Raised(c, "reserve", arg, "TypeError")
    /\ UNCHANGED <<session, attached, nextId>>

\* A reserve that takes a missing quota for a limit of 10.
reserve_default_limit(c, form, reservation, resource, usage, delta) ==
    LET arg == [reservation |-> reservation, resource |-> resource,
                usage |-> usage, delta |-> delta]
    IN
    /\ result' = Raised(c, "reserve", arg,
                        IF delta > 10 THEN "OverQuota" ELSE "TypeError")
    /\ UNCHANGED <<db, session, attached, nextId>>

\* API.reserve: the isinstance test on the first line raises before anything
\* else runs.  Past it, the item is built with the resource under the
\* keyword resorce_id: the constructor either rejects the unknown keyword or
\* builds an item with no resource_id, which is added to the session.  No
\* quota is looked up and no Usage row is read or written.
reserve(c, form, reservation, resource, usage, delta) ==
    LET arg == [reservation |-> reservation, resource |-> resource,
                usage |-> usage, delta |-> delta]
    IN
    /\ IF IsInstanceRaises(form)
       THEN /\ result' = Raised(c, "reserve", arg, "TypeError")
            /\ UNCHANGED <<session, nextId>>
       ELSE \/ /\ result' = Raised(c, "reserve", arg, "TypeError")
               /\ UNCHANGED <<session, nextId>>
            \/ /\ c \notin attached
               /\ result' = Raised(c, "reserve", arg, "AttributeError")
               /\ UNCHANGED <<session, nextId>>
            \/ LET new_reserved_items == [id |-> generate_uuid,
                                          reservation_id |-> reservation,
                                          resource_id |-> None,
                                          usage_id |-> usage, delta |-> delta]
               IN /\ c \in attached
                  /\ nextId <= MaxIds
                  /\ session' = SessionAdd(c, "reserved_items", new_reserved_items)
                  /\ nextId' = nextId + 1
                  /\ result' = Returned(c, "reserve", arg, new_reserved_items.id)
    /\ UNCHANGED <<db, attached>>

\* API.expire_reservations: the body is pass.  now is the time of the call.
expire_reservations(c, now) ==
    /\ result' = Returned(c, "expire_reservations", [now |-> now], None)
    /\ UNCHANGED <<db, session, attached, nextId>>

\* API.create_category: the isinstance test on the first line raises before
\* the session is touched.  Past it, the Duplicate raised for an existing
\* (name, service) is caught by the except clause that follows it and the
\* row is added all the same.
create_category(c, form, service, name, usage_fset, quota_fsets) ==
    LET arg == [service |-> service, name |-> name]
    IN
    /\ IF IsInstanceRaises(form)
       THEN /\ result' = Raised(c, "create_category", arg, "TypeError")
            /\ UNCHANGED <<session, nextId>>
       ELSE IF c \notin attached
       THEN /\ result' = Raised(c, "create_category", arg, "AttributeError")
            /\ UNCHANGED <<session, nextId>>
       ELSE LET new_category == [id |-> generate_uuid, service_id |-> service,
                                 name |-> name, usage_fset |-> usage_fset,
                                 quota_fsets |-> quota_fsets]
            IN /\ nextId <= MaxIds
               /\ session' = SessionAdd(c, "categories", new_category)
               /\ nextId' = nextId + 1
               /\ result' = Returned(c, "create_category", arg, new_category.id)
    /\ UNCHANGED <<db, attached>>

\* API.create_resource: the isinstance test on the first line raises before
\* the session is touched.  Past it, the Duplicate raised for an existing
\* (name, service, category) is caught by the except clause that follows it
\* and the row is added all the same.
create_resource(c, form, service, category, name, absolute) ==
    LET arg == [service |-> service, category |-> category, name |-> name]
    IN
    /\ IF IsInstanceRaises(form)
       THEN /\ result' = Raised(c, "create_resource", arg, "TypeError")
            /\ UNCHANGED <<session, nextId>>
       ELSE IF c \notin attached
       THEN /\ result' = Raised(c, "create_resource", arg, "AttributeError")
            /\ UNCHANGED <<session, nextId>>
       ELSE LET new_resource == [id |-> generate_uuid, service_id |-> service,
                                 category_id |-> category, name |-> name,
                                 absolute |-> absolute]
            IN /\ nextId <= MaxIds
               /\ session' = SessionAdd(c, "resources", new_resource)
               /\ nextId' = nextId + 1
               /\ result' = Returned(c, "create_resource", arg, new_resource.id)
    /\ UNCHANGED <<db, attached>>

\* API.create_quota: the isinstance test on the first line raises before the
\* session is touched.  Past it, the Duplicate raised for an existing
\* (resource, auth_data) is caught by the except clause that follows it, and
\* the constructor is given the resource under the keyword resorce_id: it
\* either rejects the unknown keyword or builds a row with no resource_id.
create_quota(c, form, resource, auth_data, limit) ==
    LET arg == [resource |-> resource, auth_data |-> auth_data]
    IN
    /\ IF IsInstanceRaises(form)
       THEN /\ result' = Raised(c, "create_quota", arg, "TypeError")
            /\ UNCHANGED <<session, nextId>>
       ELSE IF c \notin attached
       THEN /\ result' = Raised(c, "create_quota", arg, "AttributeError")
            /\ UNCHANGED <<session, nextId>>
       ELSE \/ /\ result' = Raised(c, "create_quota", arg, "TypeError")
               /\ UNCHANGED <<session, nextId>>
            \/ LET new_quota == [id |-> generate_uuid, resource_id |-> None,
                                 auth_data |-> auth_data, limit |-> limit]
               IN /\ nextId <= MaxIds
                  /\ session' = SessionAdd(c, "quotas", new_quota)
                  /\ nextId' = nextId + 1
                  /\ result' = Returned(c, "create_quota", arg, new_quota.id)
    /\ UNCHANGED <<db, attached>>

\* API.get_service: the TypeError raised when id and name are both given is
\* caught by the except clause that follows it, and the test for neither
\* (id and name is None) is false without an id.  The lookup is by id when
\* id is given, else by name; first() takes any of the matching rows.  The
\* KeyError raised for no match is caught too, and the call returns None.
get_service(c, id, name) ==
    LET arg == [id |-> id, name |-> name]
        found == IF id # None
                 THEN {s \in Visible(c, "services") : s.id = id}
                 ELSE {s \in Visible(c, "services") : s.name = name}
    IN
    /\ IF c \notin attached
       THEN result' = Raised(c, "get_service", arg, "AttributeError")
       ELSE IF found = {}
       THEN result' = Returned(c, "get_service", arg, None)
       ELSE \E s \in found : result' = Returned(c, "get_service", arg, s.id)
    /\ UNCHANGED <<db, session, attached, nextId>>

\* API.get_category: there is no isinstance test.  The TypeError raised when
\* id, name and service are all given is caught by the except clause that
\* follows it.  The lookup is by id when id is given; else it reads
\* service.id, which a UUID string and None do not have, and filters
\* Category on name and the Service table on that id without joining the
\* two, so that any category of that name matches while the service exists.
\* The KeyError raised for no match is caught, and the call returns None.
get_category(c, form, id, service, name) ==
    LET arg == [id |-> id, service |-> service, name |-> name]
        found == IF id # None
                 THEN {k \in Visible(c, "categories") : k.id = id}
                 ELSE {k \in Visible(c, "categories") :
                         /\ k.name = name
                         /\ \E s \in Visible(c, "services") : s.id = service}
    IN
    /\ IF c \notin attached
       THEN result' = Raised(c, "get_category", arg, "AttributeError")
       ELSE IF id = None /\ form # "record"
       THEN result' = Raised(c, "get_category", arg, "AttributeError")
       ELSE IF found = {}
       THEN result' = Returned(c, "get_category", arg, None)
       ELSE \E k \in found : result' = Returned(c, "get_category", arg, k.id)
    /\ UNCHANGED <<db, session, attached, nextId>>

\* API.get_resource: the isinstance test on the first line raises for every
\* service argument, the default None included.  Past it, the TypeError and
\* the KeyError are caught as in get_category, and the lookup is by id or
\* by (name, service_id).
get_resource(c, form, id, service, name) ==
    LET arg == [id |-> id, service |-> service, name |-> name]
        found == IF id # None
                 THEN {r \in Visible(c, "resources") : r.id = id}
                 ELSE {r \in Visible(c, "resources") :
                         r.name = name /\ r.service_id = service}
    IN
    /\ IF IsInstanceRaises(form)
       THEN result' = Raised(c, "get_resource", arg, "TypeError")
       ELSE IF c \notin attached
       THEN result' = Raised(c, "get_resource", arg, "AttributeError")
       ELSE IF found = {}
       THEN result' = Returned(c, "get_resource", arg, None)
       ELSE \E r \in found : result' = Returned(c, "get_resource", arg, r.id)
    /\ UNCHANGED <<db, session, attached, nextId>>

\* API.get_usage: the isinstance test on the first line raises for every
\* resource argument, the default None included.  Past it, the TypeError and
\* the KeyError are caught, and the lookup is by id or by (resource_id,
\* parameter_data, auth_data).
get_usage(c, form, id, resource, param_data, auth_data) ==
    LET arg == [id |-> id, resource |-> resource, param_data |-> param_data,
                auth_data |-> auth_data]
        found == IF id # None
                 THEN {u \in Visible(c, "usages") : u.id = id}
                 ELSE {u \in Visible(c, "usages") :
                         /\ u.resource_id = resource
                         /\ u.parameter_data = param_data
                         /\ u.auth_data = auth_data}
    IN
    /\ IF IsInstanceRaises(form)
       THEN result' = Raised(c, "get_usage", arg, "TypeError")
       ELSE IF c \notin attached
       THEN result' = Raised(c, "get_usage", arg, "AttributeError")
       ELSE IF found = {}
       THEN result' = Returned(c, "get_usage", arg, None)
       ELSE \E u \in found : result' = Returned(c, "get_usage", arg, u.id)
    /\ UNCHANGED <<db, session, attached, nextId>>

\* API.get_quota: the isinstance test on the first line raises for every
\* resource argument, the default None included.  Past it, the TypeError
\* raised for a bad argument combination and the KeyError raised for no
\* match are both caught by the except clause that follows them: the lookup
\* runs by id when id is given, else by the exact (resource, auth_data)
\* pair, and the call returns the first match or None.
get_quota(c, form, id, resource, auth_data) ==
    LET arg == [id |-> id, resource |-> resource, auth_data |-> auth_data]
        found == IF id # None
                 THEN {q \in Visible(c, "quotas") : q.id = id}
                 ELSE {q \in Visible(c, "quotas") :
                         q.resource_id = resource /\ q.auth_data = auth_data}
    IN
    /\ IF IsInstanceRaises(form)
       THEN result' = Raised(c, "get_quota", arg, "TypeError")
       ELSE IF c \notin attached
       THEN result' = Raised(c, "get_quota", arg, "AttributeError")
       ELSE IF found = {}
       THEN result' = Returned(c, "get_quota", arg, None)
       ELSE \E q \in found : result' = Returned(c, "get_quota", arg, q.id)
    /\ UNCHANGED <<db, session, attached, nextId>>

\* API.get_reservation: the lookup is by id.  The test that follows it is
\* inverted (reservation is not None), so the KeyError is raised when the
\* row was found, and the except clause that follows catches it: the call
\* returns the row when there is one and None when there is none.
get_reservation(c, id) ==
    LET arg == [id |-> id]
        found == {r \in Visible(c, "reservations") : r.id = id}
    IN
    /\ IF c \notin attached
       THEN result' = Raised(c, "get_reservation", arg, "AttributeError")
       ELSE IF found = {}
       THEN result' = Returned(c, "get_reservation", arg, None)
       ELSE \E r \in found : result' = Returned(c, "get_reservation", arg, r.id)
    /\ UNCHANGED <<db, session, attached, nextId>>

\* The reservations a caller holding context c can name.
KnownReservations(c) == {r.id : r \in Visible(c, "reservations")}

Next ==
    \/ \E c \in Contexts : create_session(c)
    \/ \E c \in Contexts : commit(c)
    \/ \E c \in Contexts : rollback(c)
    \/ \E c \in Contexts, name \in ServiceNames : create_service(c, name, AuthFields)
    \/ \E c \in Contexts, expire \in ExpireTimes : create_reservation(c, expire)
    \/ \E c \in Contexts, now \in Clock : expire_reservations(c, now)
    \/ \E c \in Contexts, form \in ArgForms :
            create_category(c, form, "S1", "compute", {"tenant_id"},
                            <<{"tenant_id"}, {}>>)
    \/ \E c \in Contexts, form \in ArgForms :
            create_resource(c, form, "S1", "K1", "instances", FALSE)
    \/ \E c \in Contexts, form \in ArgForms :
            create_quota(c, form, "R1", "T1", 5)
    \/ \E c \in Contexts, id \in {None, "S1", IdPool[1]}, name \in {None, "nova"} :
            get_service(c, id, name)
    \/ \E c \in Contexts, a \in LookupShapes("K1", "S1", "compute", None) :
            get_category(c, a.form, a.id, a.ref, a.key)
    \/ \E c \in Contexts : get_category(c, "record", None, IdPool[1], "compute")
    \/ \E c \in Contexts, a \in LookupShapes("R1", "S1", "instances", None) :
            get_resource(c, a.form, a.id, a.ref, a.key)
    \/ \E c \in Contexts, a \in LookupShapes("U1", "R1", Fingerprint, NoFingerprint) :
            get_usage(c, a.form, a.id, a.ref, a.key.param_data, a.key.auth_data)
    \/ \E c \in Contexts, a \in LookupShapes("Q1", "R1", "T1", None) :
            get_quota(c, a.form, a.id, a.ref, a.key)
    \/ \E c \in Contexts : get_reservation(c, IdPool[1])
    \/ \E c \in Contexts, form \in ArgForms, param_data \in ParamDatas,
          u \in UsageRequests :
            create_usage(c, form, u.resource, param_data, u.auth_data, u.used,
                         u.reserved, u.until_refresh, u.refresh_id)
    \/ \E c \in Contexts, form \in ArgForms, t \in ReserveTargets,
          delta \in Deltas :
            \E reservation \in KnownReservations(c) :
                reserve(c, form, reservation, t.resource, t.usage, delta)

Spec == Init /\ [][Next]_vars

\* The expiry sweep keeps being run after every expire time has passed.
FairSpec ==
    Spec /\ WF_vars(\E c \in Contexts : expire_reservations(c, 2))

\* ---------------------------------------------------------- claim vocabulary

\* The step just taken is a call of op: every call writes result.
Called(op) == result'.op = op

AllReservations ==
    db.reservations \cup UNION {session[c].reservations : c \in Contexts}

\* The Usage rows of one fingerprint among a set of rows.
UsagesOf(rows, resource, auth_data, param_data) ==
    {u \in rows : /\ u.resource_id = resource
                  /\ u.auth_data = auth_data
                  /\ u.parameter_data = param_data}

\* The Quota rows that govern a Usage row.
QuotasOf(u) ==
    {q \in db.quotas : q.resource_id = u.resource_id /\ q.auth_data = u.auth_data}

RECURSIVE SumDeltas(_)
SumDeltas(items) ==
    IF items = {} THEN 0
    ELSE LET i == CHOOSE x \in items : TRUE
         IN i.delta + SumDeltas(items \ {i})

\* The sum of the deltas of reservation r's items on Usage row u, as context c
\* sees them.
DeltaOn(c, r, u) ==
    SumDeltas({i \in Visible(c, "reserved_items") :
                 i.reservation_id = r.id /\ i.usage_id = u.id})

\* ------------------------------------------------------------------ claims

\* C1 (as claimed): when create_usage is called a second time with the same
\* fingerprint (resource, auth_data, param_data), the second call fails with
\* Duplicate and the caller sees exactly one Usage row for that fingerprint.
C1_SecondCreateUsageDuplicate ==
    [][(/\ result.op = "create_usage"
        /\ Called("create_usage")
        /\ result'.arg.resource = result.arg.resource
        /\ result'.arg.auth_data = result.arg.auth_data
        /\ result'.arg.param_data = result.arg.param_data)
       => /\ result'.raised = "Duplicate"
          /\ Cardinality(UsagesOf(db'.usages \cup session'[result'.ctx].usages,
                                  result'.arg.resource, result'.arg.auth_data,
                                  result'.arg.param_data)) = 1]_vars

\* C2 (as claimed): two reserve calls made through different contexts, one
\* right after the other, each with delta 6 against the same Usage row whose
\* quota limit is 10 and whose used and reserved were 0: exactly one returns
\* and the other fails with OverQuota, and reserved never holds both deltas.
C2_ConcurrentReserveOneWins ==
    [][(/\ result.op = "reserve"
        /\ Called("reserve")
        /\ result'.ctx # result.ctx
        /\ result.arg.delta = 6
        /\ result'.arg.delta = 6
        /\ result'.arg.usage = result.arg.usage
        /\ \E u \in db.usages :
             /\ u.id = result.arg.usage
             /\ u.used = 0
             /\ u.reserved = (IF result.raised = None THEN 6 ELSE 0)
             /\ \E q \in QuotasOf(u) : q.limit = 10)
       => /\ \/ result.raised = None /\ result'.raised = "OverQuota"
             \/ result.raised = "OverQuota" /\ result'.raised = None
          /\ \A u \in db'.usages : u.id = result.arg.usage => u.reserved # 12]_vars

C7_OverQuotaRejected ==
    [][Called("reserve")
       => \A u \in db.usages : \A q \in QuotasOf(u) :
            (u.id = result'.arg.usage /\ u.used + u.reserved + result'.arg.delta > q.limit)
            => /\ result'.raised = "OverQuota"
               /\ db'.reserved_items = db.reserved_items
               /\ session'[result'.ctx].reserved_items
                    = session[result'.ctx].reserved_items
               /\ u \in db'.usages]_vars

\* C8 (as claimed): a reserve call that stays within the quota limit succeeds
\* for positive and negative delta alike: it attaches exactly one
\* ReservedItem carrying delta to the reservation and adds delta to the
\* Usage row's reserved, leaving used as it was.
C8_ReserveAttachesItem ==
    [][(Called("reserve") /\ result'.ctx \in attached)
       => \A u \in db.usages : \A q \in QuotasOf(u) :
            (u.id = result'.arg.usage /\ u.used + u.reserved + result'.arg.delta <= q.limit)
            => /\ result'.raised = None
               /\ \E i \in session'[result'.ctx].reserved_items :
                    /\ i.reservation_id = result'.arg.reservation
                    /\ i.delta = result'.arg.delta
                    /\ session'[result'.ctx].reserved_items
                         = session[result'.ctx].reserved_items \cup {i}
                    /\ i \notin session[result'.ctx].reserved_items
               /\ \E u2 \in db'.usages :
                    /\ u2.id = u.id
                    /\ u2.used = u.used
                    /\ u2.reserved = u.reserved + result'.arg.delta]_vars

C11_ExpireRollsBackOnce ==
    [][Called("expire_reservations")
       => \A r \in db.reservations :
            /\ (r.status = "PENDING" /\ r.expire < result'.arg.now)
               => /\ \E r2 \in db'.reservations :
                       r2.id = r.id /\ r2.status = "ROLLED_BACK"
                  /\ \A u \in db.usages : \E u2 \in db'.usages :
                       /\ u2.id = u.id
                       /\ u2.used = u.used
                       /\ u2.reserved = u.reserved - DeltaOn(result'.ctx, r, u)
            /\ r.status = "ROLLED_BACK"
               => (r \in db'.reservations /\ db'.usages = db.usages)]_vars

\* C12 (as claimed): when the expiry sweep keeps being run, every reservation
\* left PENDING in the database is eventually no longer PENDING there: it is
\* ROLLED_BACK once its expire time has passed (or COMMITTED before that).
C12_ExpiredEventuallyRolledBack ==
    \A i \in 1..Len(IdPool) :
        (\E r \in db.reservations : r.id = IdPool[i] /\ r.status = "PENDING")
        ~> (\E r \in db.reservations :
              r.id = IdPool[i] /\ r.status \in {"ROLLED_BACK", "COMMITTED"})

\* Keeping of auth_data only the fields of fset.
Project(auth_data, fset) ==
    IF "tenant_id" \in fset THEN auth_data ELSE EmptyAuth

\* The Quota rows of resource that the i-th field set of fsets matches.
FsetMatches(resource, auth_data, fsets, i) ==
    {q \in db.quotas : /\ q.resource_id = resource
                       /\ q.auth_data = Project(auth_data, fsets[i])}

\* The Quota rows that win the resolution for (resource, auth_data): those of
\* the lowest-index field set of the resource's category that matches any.
Resolved(resource, auth_data) ==
    UNION {LET fsets == k.quota_fsets
               hits == {i \in 1..Len(fsets) :
                          FsetMatches(resource, auth_data, fsets, i) # {}}
           IN IF hits = {} THEN {}
              ELSE FsetMatches(resource, auth_data, fsets,
                               CHOOSE i \in hits : \A j \in hits : i <= j)
           : k \in {k \in db.categories :
                      \E r \in db.resources : r.id = resource /\ r.category_id = k.id}}

\* C13 (as claimed): get_quota for (resource, auth_data) returns the Quota row
\* matched by the lowest-index field set of the category's quota_fsets, also
\* when a later field set matches another row: with quota_fsets
\* <<{tenant_id}, {}>>, the tenant's row and not the default row.
C13_FirstFieldSetWins ==
    [][(/\ Called("get_quota")
        /\ result'.arg.id = None
        /\ result'.arg.resource # None
        /\ result'.arg.auth_data # None
        /\ Resolved(result'.arg.resource, result'.arg.auth_data) # {})
       => /\ result'.raised = None
          /\ \E q \in Resolved(result'.arg.resource, result'.arg.auth_data) :
                result'.ret = q.id]_vars

\* The Quota rows that limit a reservation of resource against the Usage row
\* named usage: those resolved for the auth_data of that row.
LimitsOf(resource, usage) ==
    UNION {Resolved(resource, u.auth_data) : u \in {u \in db.usages : u.id = usage}}

AbsoluteResources == {r.id : r \in {r \in db.resources : r.absolute}}

\* Every Usage row, committed or pending in a session.
AllUsages == db.usages \cup UNION {session[c].usages : c \in Contexts}

C16_GetServiceInvalidArguments ==
    [][(/\ Called("get_service")
        /\ result'.ctx \in attached
        /\ (result'.arg.id = None) = (result'.arg.name = None))
       => /\ result'.raised = "TypeError"
          /\ result'.ret = None]_vars

\* Context c can see a row of table with this id.
Exists(c, table, id) == \E row \in Visible(c, table) : row.id = id

\* C17 (as claimed): a lookup by an id whose row does not exist fails with
\* KeyError, for get_service, get_category, get_resource, get_usage and
\* get_quota alike; it never returns normally.
C17_MissingRowKeyError ==
    [][\A look \in {[op |-> "get_service", table |-> "services"],
                     [op |-> "get_category", table |-> "categories"],
                     [op |-> "get_resource", table |-> "resources"],
                     [op |-> "get_usage", table |-> "usages"],
                     [op |-> "get_quota", table |-> "quotas"]} :
          (/\ Called(look.op)
           /\ result'.ctx \in attached
           /\ result'.arg.id # None
           /\ \A f \in DOMAIN result'.arg : f # "id" => result'.arg[f] = None
           /\ ~Exists(result'.ctx, look.table, result'.arg.id))
          => result'.raised = "KeyError"]_vars

\* The argument combinations a lookup accepts: the id alone, or every
\* component of the natural key without the id.
ValidCombination(arg) ==
    \/ arg.id # None /\ \A f \in DOMAIN arg : f # "id" => arg[f] = None
    \/ arg.id = None /\ \A f \in DOMAIN arg : f # "id" => arg[f] # None

\* C18 (as claimed): get_category, get_resource, get_usage and get_quota fail
\* with TypeError for every argument combination other than the id alone or
\* the whole natural key alone.
C18_InvalidCombinationTypeError ==
    [][(/\ \E op \in {"get_category", "get_resource", "get_usage", "get_quota"} :
              Called(op)
        /\ result'.ctx \in attached
        /\ ~ValidCombination(result'.arg))
       => result'.raised = "TypeError"]_vars

\* The rows of table, as context c sees it, that have the natural key of the
\* create call whose arguments are arg.
SameKey(c, op, arg) ==
    CASE op = "create_service" ->
           {s \in Visible(c, "services") : s.name = arg.name}
      [] op = "create_category" ->
           {k \in Visible(c, "categories") :
              k.service_id = arg.service /\ k.name = arg.name}
      [] op = "create_resource" ->
           {r \in Visible(c, "resources") :
              /\ r.service_id = arg.service
              /\ r.category_id = arg.category
              /\ r.name = arg.name}
      [] op = "create_quota" ->
           {q \in Visible(c, "quotas") :
              q.resource_id = arg.resource /\ q.auth_data = arg.auth_data}

\* C19 (as claimed): create_service, create_category, create_resource and
\* create_quota called with a natural key that already has a row fail with
\* Duplicate, add no row and leave the existing rows unchanged.
C19_ExistingKeyDuplicate ==
    [][\A op \in {"create_service", "create_category", "create_resource",
                   "create_quota"} :
          (/\ Called(op)
           /\ result'.ctx \in attached
           /\ SameKey(result'.ctx, op, result'.arg) # {})
          => /\ result'.raised = "Duplicate"
             /\ db' = db
             /\ session' = session]_vars

\* The rows of a table are told apart by key: no two have the same value of
\* key and different ids.
UniqueBy(rows, Key(_)) ==
    \A a, b \in rows : Key(a) = Key(b) => a.id = b.id

ServiceKey(s) == s.name
CategoryKey(k) == <<k.service_id, k.name>>
ResourceKey(r) == <<r.service_id, r.category_id, r.name>>
UsageKey(u) == <<u.resource_id, u.auth_data, u.parameter_data>>
QuotaKey(q) == <<q.resource_id, q.auth_data>>

C22_GetReservation ==
    [][(Called("get_reservation") /\ result'.ctx \in attached)
       => IF Exists(result'.ctx, "reservations", result'.arg.id)
          THEN result'.raised = None /\ result'.ret = result'.arg.id
          ELSE result'.raised = "KeyError"]_vars

\* Every ReservedItem, committed or pending in a session.
AllReservedItems ==
    db.reserved_items \cup UNION {session[c].reserved_items : c \in Contexts}

\* C23: a create_reservation(expire) that returns adds one reservation, with
\* status PENDING, the given expire and no ReservedItems, and changes no
\* other row: no Usage row in particular.
C23_CreateReservationFrame ==
    [][(Called("create_reservation") /\ result'.raised = None)
       => LET c == result'.ctx
              new == [id |-> result'.ret, expire |-> result'.arg.expire,
                      status |-> "PENDING"]
          IN /\ \A r \in AllReservations : r.id # new.id
             /\ session' = [session EXCEPT ![c].reservations = @ \cup {new}]
             /\ db' = db
             /\ \A i \in AllReservedItems' : i.reservation_id # new.id]_vars

\* create_reservation has returned a reservation that is pending in the
\* caller's session, next to the Usage rows of the database.
C23_Witness ==
    /\ result.op = "create_reservation"
    /\ result.raised = None
    /\ \E r \in session[result.ctx].reservations :
          r.id = result.ret /\ r.expire = result.arg.expire /\ r.status = "PENDING"
    /\ db.usages # {}

\* C24 (as claimed): a call that passes a record and the same call passing
\* the record's id produce the same result and the same store state: every
\* step that is the one is also the other.
C24_RecordOrIdSameOutcome ==
    [][\A c \in Contexts :
        /\ create_category(c, "record", "S1", "compute", {"tenant_id"}, <<{"tenant_id"}, {}>>)
           <=> create_category(c, "id", "S1", "compute", {"tenant_id"}, <<{"tenant_id"}, {}>>)
        /\ create_resource(c, "record", "S1", "K1", "instances", FALSE)
           <=> create_resource(c, "id", "S1", "K1", "instances", FALSE)
        /\ create_quota(c, "record", "R1", "T1", 5)
           <=> create_quota(c, "id", "R1", "T1", 5)
        /\ \A u \in UsageRequests :
              create_usage(c, "record", u.resource, "P1", u.auth_data, u.used,
                           u.reserved, u.until_refresh, u.refresh_id)
              <=> create_usage(c, "id", u.resource, "P1", u.auth_data, u.used,
                               u.reserved, u.until_refresh, u.refresh_id)
        /\ \A t \in ReserveTargets, delta \in Deltas, reservation \in KnownReservations(c) :
              reserve(c, "record", reservation, t.resource, t.usage, delta)
              <=> reserve(c, "id", reservation, t.resource, t.usage, delta)
        /\ \A name \in {None, "compute"} :
              get_category(c, "record", None, "S1", name)
              <=> get_category(c, "id", None, "S1", name)
        /\ \A name \in {None, "instances"} :
              get_resource(c, "record", None, "S1", name)
              <=> get_resource(c, "id", None, "S1", name)
        /\ get_usage(c, "record", None, "R1", "P1", "T1")
           <=> get_usage(c, "id", None, "R1", "P1", "T1")
        /\ \A auth_data \in {None, "T1"} :
              get_quota(c, "record", None, "R1", auth_data)
              <=> get_quota(c, "id", None, "R1", auth_data)]_vars

\* C25 (as claimed): a reserve against a Usage row decrements the row's
\* until_refresh by one, and a row whose until_refresh reaches zero gets a
\* refresh_id it did not have before.
C25_ReserveCountsDownToRefresh ==
    [][Called("reserve")
       => \A u \in db.usages :
            u.id = result'.arg.usage
            => \E u2 \in db'.usages \cup session'[result'.ctx].usages :
                 /\ u2.id = u.id
                 /\ u2.until_refresh = u.until_refresh - 1
                 /\ u2.until_refresh = 0 => u2.refresh_id \notin {None, u.refresh_id}]_vars

C27_CategoryOfTheService ==
    [][(/\ Called("get_category")
        /\ result'.arg.id = None
        /\ result'.raised = None
        /\ result'.ret # None)
       => \A k \in Visible(result'.ctx, "categories") :
            k.id = result'.ret => k.service_id = result'.arg.service]_vars

\* The rows that a lookup by natural key, made through context c with the
\* arguments arg, has to choose from.
KeyCandidates(c, op, arg) ==
    CASE op = "get_service" ->
           {s \in Visible(c, "services") : s.name = arg.name}
      [] op = "get_category" ->
           {k \in Visible(c, "categories") :
              k.service_id = arg.service /\ k.name = arg.name}
      [] op = "get_resource" ->
           {r \in Visible(c, "resources") :
              r.service_id = arg.service /\ r.name = arg.name}
      [] op = "get_usage" ->
           {u \in Visible(c, "usages") :
              /\ u.resource_id = arg.resource
              /\ u.parameter_data = arg.param_data
              /\ u.auth_data = arg.auth_data}
      [] op = "get_quota" ->
           {q \in Visible(c, "quotas") :
              q.resource_id = arg.resource /\ q.auth_data = arg.auth_data}

C29_CreateUsageAttributes ==
    [][(/\ Called("create_usage")
        /\ result'.ctx \in attached
        /\ UsagesOf(Visible(result'.ctx, "usages"), result'.arg.resource,
                    result'.arg.auth_data, result'.arg.param_data) = {})
       => /\ result'.raised = None
          /\ \E u \in session'[result'.ctx].usages :
                /\ u.id = result'.ret
                /\ u.used = result'.arg.used
                /\ u.reserved = result'.arg.reserved
                /\ u.until_refresh = result'.arg.until_refresh
                /\ u.refresh_id = result'.arg.refresh_id]_vars

\* The lookup that reads back what a create call made.
LookupOf(op) ==
    CASE op = "create_service" -> "get_service"
      [] op = "create_category" -> "get_category"
      [] op = "create_resource" -> "get_resource"
      [] op = "create_usage" -> "get_usage"
      [] op = "create_quota" -> "get_quota"

\* C30 (as claimed): a lookup that follows a successful create call in the
\* same context, by the returned id alone or by the natural key used at
\* creation alone, returns the created record, which has the attributes
\* given at creation.
C30_CreateThenGet ==
    [][\A op \in {"create_service", "create_category", "create_resource",
                   "create_usage", "create_quota"} :
          (/\ result.op = op
           /\ result.raised = None
           /\ Called(LookupOf(op))
           /\ result'.ctx = result.ctx
           /\ LET key == DOMAIN result'.arg \ {"id"}
              IN \/ /\ result'.arg.id = result.ret
                    /\ \A f \in key : result'.arg[f] = None
                 \/ /\ result'.arg.id = None
                    /\ \A f \in key : result'.arg[f] = result.arg[f])
          => /\ result'.raised = None
             /\ result'.ret = result.ret]_vars

\* The Usage rows that the call just made targets: the one reserve names,
\* and those of the items of the reservations that commit or rollback
\* ended or that had expired when expire_reservations ran.
TargetedUsages ==
    CASE Called("reserve") -> {result'.arg.usage}
      [] Called("commit") \/ Called("rollback") ->
           IF result'.raised = None
           THEN {i.usage_id : i \in {i \in AllReservedItems :
                                       i.reservation_id \in result'.arg.reservations}}
           ELSE {}
      [] Called("expire_reservations") ->
           {i.usage_id : i \in {i \in AllReservedItems :
                                  \E r \in AllReservations :
                                    /\ r.id = i.reservation_id
                                    /\ r.expire < result'.arg.now}}
      [] OTHER -> {}

\* C31: a reserve, commit, rollback or expire_reservations call leaves every
\* Usage row that it does not target as it was: the row stays in the
\* database with the same used, reserved, until_refresh and refresh_id.
C31_OtherFingerprintsUnchanged ==
    [][(\/ Called("reserve") \/ Called("commit") \/ Called("rollback")
        \/ Called("expire_reservations"))
       => \A u \in AllUsages :
            u.id \notin TargetedUsages
            => /\ u \in db.usages => u \in db'.usages
               /\ \A u2 \in AllUsages' : u2.id = u.id => u2 = u]_vars

\* reserve was called against one Usage row of a resource while the
\* database held another row of that resource, with another fingerprint.
C31_Witness ==
    /\ result.op = "reserve"
    /\ \E u, v \in db.usages :
          /\ u.id = result.arg.usage
          /\ v.id # u.id
          /\ v.resource_id = u.resource_id
          /\ <<v.auth_data, v.parameter_data>> # <<u.auth_data, u.parameter_data>>

\* The tables of the accounting engine, as opposed to those of the registry.
LedgerTables == {"usages", "quotas", "reservations", "reserved_items"}

\* C32: create_service, create_category and create_resource change no Usage,
\* Quota, Reservation or ReservedItem row, in the database or in a session,
\* and the lookups change no row at all.
C32_RegistryLeavesLedger ==
    [][/\ (\E op \in {"create_service", "create_category", "create_resource"} :
              Called(op))
          => \A t \in LedgerTables :
               /\ db'[t] = db[t]
               /\ \A c \in Contexts : session'[c][t] = session[c][t]
       /\ (\E op \in {"get_service", "get_category", "get_resource", "get_usage",
                       "get_quota", "get_reservation"} : Called(op))
          => db' = db /\ session' = session]_vars

\* create_service has added a service in a session that holds a pending
\* reservation, over a database that holds Usage and Quota rows.
C32_Witness ==
    /\ result.op = "create_service"
    /\ result.raised = None
    /\ \E s \in session[result.ctx].services : s.id = result.ret
    /\ session[result.ctx].reservations # {}
    /\ db.usages # {}
    /\ db.quotas # {}

\* The reserved value a Usage row started with: that of the row in the
\* database the program started on, or the column default.
InitialReserved(u) ==
    IF \E s \in SeedStore.usages : s.id = u.id
    THEN (CHOOSE s \in SeedStore.usages : s.id = u.id).reserved
    ELSE UsageCounterDefault

\* The ReservedItems that target Usage row u and belong to a reservation
\* that is still PENDING.
PendingItemsOn(u) ==
    {i \in AllReservedItems :
       /\ i.usage_id = u.id
       /\ \E r \in AllReservations :
             r.id = i.reservation_id /\ r.status = "PENDING"}

====
